---- MODULE Spec2Model ----
(***************************************************************************)
(* A model of the radiology report structuring backend:                    *)
(*   - app/api/reports.py       create_batch, get_batch, get_batches, ...  *)
(*   - app/services/ai_service.py  AIService (provider resolution, schema  *)
(*                                 compilation, structure_report)          *)
(*   - app/core/config.py       Settings                                   *)
(* Python strings that the code converts (lower(), strip(), splitext) are  *)
(* sequences of one-character strings; None is the empty sequence <<>> and *)
(* an optional value v is <<v>>.                                           *)
(***************************************************************************)
EXTENDS Integers, Sequences, FiniteSets, Bags, TLC

VARIABLES
    batches,            \* table ReportBatch: batches[id] is the row with that id
    reports,            \* table StructuredReport: reports[id] is the row with that id
    dispatched,         \* the calls process_report_task.delay(id), in call order
    queue,              \* bag of report ids the transport has still to deliver
    active,             \* report ids whose unit of work is running
    redelivered,        \* number of duplicate deliveries the transport has made
    req,                \* the create_batch call in progress (its locals)
    response,           \* the HTTP response just sent, NoResponse otherwise
    settings,           \* app.core.config.settings (the AI fields)
    service,            \* the AIService singleton
    template_structure, \* a Template.structure value
    loads,              \* the loaded copies of template_structure (their heaps)
    schemas,            \* schemas[i]: the schema compiled from load i
    outcome             \* what the last structure_report call did

vars == <<batches, reports, dispatched, queue, active, redelivered, req, response,
          settings, service, template_structure, loads, schemas, outcome>>

lifecycleVars == <<batches, reports, dispatched, queue, active, redelivered, req, response>>
aiVars == <<settings, service, template_structure, loads, schemas, outcome>>

None == <<>>
NoResponse == [kind |-> "none"]

(***************************************************************************)
(* Bounds of the model.                                                    *)
(***************************************************************************)
\* The most StructuredReport rows the model lets uploads create in total.
MaxReports == 2
\* The most duplicate deliveries of a report id the transport makes.
MaxRedeliver == 1

(***************************************************************************)
(* Python string operations.                                               *)
(***************************************************************************)
Whitespace == {" ", "\t", "\n"}

\* str.lower() on the letters the model's strings use
LowerChar(c) ==
    CASE c = "A" -> "a" [] c = "E" -> "e" [] c = "H" -> "h" [] c = "I" -> "i"
      [] c = "J" -> "j" [] c = "L" -> "l" [] c = "M" -> "m" [] c = "N" -> "n"
      [] c = "O" -> "o" [] c = "P" -> "p" [] c = "S" -> "s" [] c = "T" -> "t"
      [] OTHER -> c

Lower(s) == [i \in DOMAIN s |-> LowerChar(s[i])]

RECURSIVE LStrip(_)
LStrip(s) ==
    IF s = <<>> THEN s
    ELSE IF Head(s) \in Whitespace THEN LStrip(Tail(s)) ELSE s

RECURSIVE RStrip(_)
RStrip(s) ==
    IF s = <<>> THEN s
    ELSE IF s[Len(s)] \in Whitespace THEN RStrip(SubSeq(s, 1, Len(s) - 1)) ELSE s

\* str.strip()
Strip(s) == RStrip(LStrip(s))

\* os.path.splitext(name)[1] for a name without directory separators: the text
\* from the last dot on, unless only dots precede that dot
SplitExt(name) ==
    LET dots == {i \in DOMAIN name : name[i] = "."}
    IN  IF dots = {} THEN <<>>
        ELSE LET last == CHOOSE i \in dots : \A j \in dots : j <= i
             IN  IF \E j \in 1..(last - 1) : name[j] # "."
                 THEN SubSeq(name, last, Len(name))
                 ELSE <<>>

\* settings.ALLOWED_EXTENSIONS
ALLOWED_EXTENSIONS == {<<".", "j", "s", "o", "n">>}

(***************************************************************************)
(* The uploads the model sends to create_batch.                            *)
(***************************************************************************)
\* Template ids the requests name; StoredTemplates are the rows that exist.
TemplateIds == {1, 2}
StoredTemplates == {1}

BatchNames == {"batch"}

FileNames ==
    { <<"a", ".", "J", "s", "o", "n">>,
      <<"a", ".", "t", "x", "t">>,
      <<".", "j", "s", "o", "n">> }

\* a JSON array element: a string, or a value that is no string
StrElem(s) == [t |-> "str", s |-> s]
IntElem == [t |-> "int", s |-> <<>>]
Elements ==
    { StrElem(<<"x">>), StrElem(<<"y", " ">>), StrElem(<<" ", "\n">>), StrElem(<<>>),
      IntElem }

\* what json.loads(content.decode("utf-8")) meets: bytes that are no UTF-8, text
\* that is no JSON, a JSON value that is no array, or an array
JsonLists ==
    { [t |-> "list", items |-> <<>>] }
    \cup { [t |-> "list", items |-> <<e>>] : e \in Elements }
    \cup { [t |-> "list", items |-> <<e, f>>] : e, f \in Elements }

Contents ==
    { [kind |-> "not_utf8", value |-> [t |-> "none", items |-> <<>>]],
      [kind |-> "not_json", value |-> [t |-> "none", items |-> <<>>]],
      [kind |-> "json", value |-> [t |-> "object", items |-> <<>>]] }
    \cup { [kind |-> "json", value |-> v] : v \in JsonLists }

Files == [filename : FileNames, content : Contents]

Uploads == { <<f>> : f \in Files } \cup { <<f, g>> : f, g \in Files }

(***************************************************************************)
(* create_batch: validation (reports.py lines 27-91).                      *)
(***************************************************************************)
HTTPException(code, detail) == [ok |-> FALSE, status_code |-> code, detail |-> detail,
                                all_reports |-> <<>>]

Accepted(all_reports) == [ok |-> TRUE, status_code |-> 201, detail |-> "",
                          all_reports |-> all_reports]

\* the first element of a JSON array that fails the checks of lines 62-72, or 0
FirstBadElement(items) ==
    LET bad == {i \in DOMAIN items :
                    \/ items[i].t # "str"
                    \/ Strip(items[i].s) = <<>>}
    IN  IF bad = {} THEN 0 ELSE CHOOSE i \in bad : \A j \in bad : i <= j

\* one pass of the loop over the files (lines 40-85): an error, or the reports
\* of the file appended to all_reports
ValidateFile(file, all_reports) ==
    IF Lower(SplitExt(file.filename)) \notin ALLOWED_EXTENSIONS
    THEN HTTPException(400, "Invalid file type")
    ELSE IF file.content.kind = "not_utf8"
    THEN HTTPException(500, "UnicodeDecodeError")
    ELSE IF file.content.kind = "not_json"
    THEN HTTPException(400, "Invalid JSON")
    ELSE IF file.content.value.t # "list"
    THEN HTTPException(400, "Invalid JSON format")
    ELSE LET items == file.content.value.items
             bad == FirstBadElement(items)
         IN  IF bad # 0
             THEN IF items[bad].t # "str"
                  THEN HTTPException(400, "Invalid report")
                  ELSE HTTPException(400, "Empty report")
             ELSE Accepted(all_reports \o
                    [i \in DOMAIN items |->
                        [text |-> items[i].s, source_file |-> file.filename]])

\* a loop that skips a file it cannot accept instead of raising
RECURSIVE ValidateFilesSkipping(_, _)
ValidateFilesSkipping(files, all_reports) ==
    IF files = <<>> THEN Accepted(all_reports)
    ELSE LET r == ValidateFile(Head(files), all_reports)
         IN  ValidateFilesSkipping(Tail(files), IF r.ok THEN r.all_reports ELSE all_reports)

RECURSIVE ValidateFiles(_, _)
ValidateFiles(files, all_reports) ==
    IF files = <<>> THEN Accepted(all_reports)
    ELSE LET r == ValidateFile(Head(files), all_reports)
         IN  IF r.ok THEN ValidateFiles(Tail(files), r.all_reports) ELSE r

\* lines 27-91: the template check, the files, the check for no report at all
Validate(template_id, files) ==
    IF template_id \notin StoredTemplates
    THEN HTTPException(404, "Template not found")
    ELSE LET r == ValidateFiles(files, <<>>)
         IN  IF ~r.ok THEN r
             ELSE IF r.all_reports = <<>>
                  THEN HTTPException(400, "No reports found in uploaded files.")
                  ELSE r

(***************************************************************************)
(* create_batch: the writes (reports.py lines 93-124).                     *)
(***************************************************************************)
\* a count that is one short
TotalReportsOneShort(all_reports) == Len(all_reports) - 1

\* total_reports=len(all_reports), line 97
TotalReports(all_reports) == Len(all_reports)

\* ReportBatch(...), lines 94-99
NewBatch(name, template_id, all_reports) ==
    [name |-> name, template_id |-> template_id,
     total_reports |-> TotalReports(all_reports), status |-> "pending"]

\* filename=f"{source_file}_report_{idx + 1}", line 114
ReportFilename(report_data, idx) == <<report_data.source_file, "_report_", idx + 1>>

\* a record that keeps the text stripped of its surrounding whitespace
NewReportStripped(batch_id, template_id, report_data, idx) ==
    [batch_id |-> batch_id, template_id |-> template_id,
     original_text |-> Strip(report_data.text),
     filename |-> ReportFilename(report_data, idx),
     status |-> "pending",
     structured_data |-> None, confidence_score |-> None, error_message |-> None]

\* StructuredReport(...), lines 110-116; idx counts from 0 as enumerate does
NewReport(batch_id, template_id, report_data, idx) ==
    [batch_id |-> batch_id, template_id |-> template_id,
     original_text |-> report_data.text,
     filename |-> ReportFilename(report_data, idx),
     status |-> "pending",
     structured_data |-> None, confidence_score |-> None, error_message |-> None]

\* The report texts an upload carries, file after file (the elements of the
\* arrays, whatever they are), and whether the upload is one create_batch has to
\* reject: these describe the upload itself, not what the code makes of it.
RECURSIVE UploadedTexts(_)
UploadedTexts(files) ==
    IF files = <<>> THEN <<>>
    ELSE LET v == Head(files).content.value
         IN  (IF v.t = "list" THEN [i \in DOMAIN v.items |-> v.items[i].s] ELSE <<>>)
             \o UploadedTexts(Tail(files))

BadFile(file) ==
    \/ Lower(SplitExt(file.filename)) \notin ALLOWED_EXTENSIONS
    \/ file.content.kind # "json"
    \/ file.content.value.t # "list"
    \/ \E i \in DOMAIN file.content.value.items :
            \/ file.content.value.items[i].t # "str"
            \/ \A j \in DOMAIN file.content.value.items[i].s :
                    file.content.value.items[i].s[j] \in Whitespace

BadUpload(template_id, files) ==
    \/ template_id \notin StoredTemplates
    \/ \E i \in DOMAIN files : BadFile(files[i])
    \/ UploadedTexts(files) = <<>>

\* What create_batch is called with.  Two uploads that validation treats alike
\* lead to the same writes, so a call is kept as the form fields and the outcome
\* of lines 27-91 on its files, with what describes the upload: whether it is
\* bad, its texts when it is not, and (mixed) whether it is a bad upload with a
\* file that is good on its own and holds a report.
Call(name, template_id, files) ==
    LET bad == BadUpload(template_id, files)
    IN  [name |-> name, template_id |-> template_id,
         bad |-> bad,
         texts |-> IF bad THEN <<>> ELSE UploadedTexts(files),
         mixed |-> /\ bad
                   /\ \E i \in DOMAIN files :
                        ~BadFile(files[i]) /\ UploadedTexts(<<files[i]>>) # <<>>,
         validation |-> Validate(template_id, files)]

CreateBatchCalls ==
    { Call(name, template_id, files) :
        name \in BatchNames, template_id \in TemplateIds, files \in Uploads }

NoCallYet == [name |-> "", template_id |-> 0, bad |-> FALSE, texts |-> <<>>,
              mixed |-> FALSE, validation |-> Accepted(<<>>)]

Idle == [pc |-> "idle", call |-> NoCallYet, all_reports |-> <<>>,
         idx |-> 0, batch_id |-> 0, report_id |-> 0,
         before |-> [batches |-> 0, reports |-> 0, dispatched |-> 0]]

NoCall == req.pc \in {"idle", "returned", "rejected"}

\* the frame of a call that has answered is gone at the next step
Settled(r) == IF r.pc \in {"returned", "rejected"} THEN Idle ELSE r

\* what the routes answer
ErrorResponse(e) == [kind |-> "error", status_code |-> e.status_code, detail |-> e.detail]
BatchResponse(kind, id) ==
    [kind |-> kind, id |-> id, total_reports |-> batches[id].total_reports,
     status |-> batches[id].status, template_id |-> batches[id].template_id]

\* a rejected upload: one of the exceptions of lines 27-91 is raised
CreateBatchReject(call) ==
    /\ NoCall
    /\ ~call.validation.ok
    /\ response' = ErrorResponse(call.validation)
    /\ req' = [Idle EXCEPT !.pc = "rejected", !.call = call,
                           !.before = [batches |-> Len(batches), reports |-> Len(reports),
                                       dispatched |-> Len(dispatched)]]
    /\ UNCHANGED <<batches, reports, dispatched, queue, active, redelivered>>
    /\ UNCHANGED aiVars

\* an accepted upload up to the commit of the batch row (lines 27-102)
CreateBatchBegin(call) ==
    /\ NoCall
    /\ call.validation.ok
    /\ Len(reports) + Len(call.validation.all_reports) <= MaxReports
    /\ batches' = Append(batches, NewBatch(call.name, call.template_id,
                                           call.validation.all_reports))
    /\ req' = [pc |-> "loop", call |-> call,
               all_reports |-> call.validation.all_reports, idx |-> 0,
               batch_id |-> Len(batches) + 1, report_id |-> 0,
               before |-> [batches |-> Len(batches), reports |-> Len(reports),
                           dispatched |-> Len(dispatched)]]
    /\ response' = NoResponse
    /\ UNCHANGED <<reports, dispatched, queue, active, redelivered>>
    /\ UNCHANGED aiVars

\* a pass that adds the report to the session and takes its id without
\* committing: the row is not there for the unit of work to read
CreateBatchAddReportUncommitted ==
    /\ req.pc = "loop"
    /\ req.idx < Len(req.all_reports)
    /\ req' = [req EXCEPT !.pc = "queue", !.report_id = Len(reports) + 1]
    /\ response' = NoResponse
    /\ UNCHANGED <<batches, reports, dispatched, queue, active, redelivered>>
    /\ UNCHANGED aiVars

\* one pass of the loop up to the commit of the report row (lines 109-119)
CreateBatchAddReport ==
    /\ req.pc = "loop"
    /\ req.idx < Len(req.all_reports)
    /\ reports' = Append(reports, NewReport(req.batch_id, req.call.template_id,
                                            req.all_reports[req.idx + 1], req.idx))
    /\ req' = [req EXCEPT !.pc = "queue", !.report_id = Len(reports) + 1]
    /\ response' = NoResponse
    /\ UNCHANGED <<batches, dispatched, queue, active, redelivered>>
    /\ UNCHANGED aiVars

\* process_report_task.delay(report.id), line 122
CreateBatchDispatch ==
    /\ req.pc = "queue"
    /\ dispatched' = Append(dispatched, req.report_id)
    /\ queue' = queue (+) SetToBag({req.report_id})
    /\ req' = [req EXCEPT !.pc = "loop", !.idx = req.idx + 1]
    /\ response' = NoResponse
    /\ UNCHANGED <<batches, reports, active, redelivered>>
    /\ UNCHANGED aiVars

\* return batch, line 124
CreateBatchReturn ==
    /\ req.pc = "loop"
    /\ req.idx = Len(req.all_reports)
    /\ req' = [req EXCEPT !.pc = "returned"]
    /\ response' = BatchResponse("created", req.batch_id)
    /\ UNCHANGED <<batches, reports, dispatched, queue, active, redelivered>>
    /\ UNCHANGED aiVars

(***************************************************************************)
(* The read routes (reports.py lines 127-144).                             *)
(***************************************************************************)
DefaultSkip == 0
DefaultLimit == 100

\* db.query(ReportBatch).offset(skip).limit(limit).all()
GetBatches(skip, limit) ==
    /\ response' = [kind |-> "batches",
                    items |-> [i \in 1..(IF Len(batches) - skip < limit
                                         THEN (IF Len(batches) > skip
                                               THEN Len(batches) - skip ELSE 0)
                                         ELSE limit)
                               |-> BatchResponse("batch", skip + i)]]
    /\ req' = Settled(req)
    /\ UNCHANGED <<batches, reports, dispatched, queue, active, redelivered>>
    /\ UNCHANGED aiVars

GetBatch(batch_id) ==
    /\ response' = IF batch_id \in DOMAIN batches
                   THEN BatchResponse("batch", batch_id)
                   ELSE ErrorResponse(HTTPException(404, "Batch not found"))
    /\ req' = Settled(req)
    /\ UNCHANGED <<batches, reports, dispatched, queue, active, redelivered>>
    /\ UNCHANGED aiVars

(***************************************************************************)
(* The unit of work "process report by id" (app/tasks/report_tasks.py,     *)
(* process_report_task) and the transport that delivers it.  The state     *)
(* machine is pending -> processing -> {completed, failed}; a delivery for *)
(* a report that has left pending is a no-op; the transport runs at most   *)
(* one unit of work per report id at a time and may deliver an id again.   *)
(***************************************************************************)
\* confidence_score of a successful extraction (ai_service.py lines 169, 195)
CONFIDENCE == 85

\* the transport delivers an id; the unit of work claims the report
ProcessReportClaim(id) ==
    /\ BagIn(id, queue)
    /\ id \notin active
    /\ queue' = queue (-) SetToBag({id})
    /\ IF reports[id].status = "pending"
       THEN /\ reports' = [reports EXCEPT ![id].status = "processing"]
            /\ active' = active \cup {id}
       ELSE UNCHANGED <<reports, active>>
    /\ response' = NoResponse
    /\ req' = Settled(req)
    /\ UNCHANGED <<batches, dispatched, redelivered>>
    /\ UNCHANGED aiVars

\* the extraction returned: processing -> completed
ProcessReportComplete(id) ==
    /\ id \in active
    /\ reports' = [reports EXCEPT ![id].status = "completed",
                                  ![id].structured_data = <<"data">>,
                                  ![id].confidence_score = <<CONFIDENCE>>]
    /\ active' = active \ {id}
    /\ response' = NoResponse
    /\ req' = Settled(req)
    /\ UNCHANGED <<batches, dispatched, queue, redelivered>>
    /\ UNCHANGED aiVars

\* the extraction raised: processing -> failed
ProcessReportFail(id) ==
    /\ id \in active
    /\ reports' = [reports EXCEPT ![id].status = "failed",
                                  ![id].error_message = <<"AI processing failed">>]
    /\ active' = active \ {id}
    /\ response' = NoResponse
    /\ req' = Settled(req)
    /\ UNCHANGED <<batches, dispatched, queue, redelivered>>
    /\ UNCHANGED aiVars

\* the transport delivers once more an id it has delivered before
Redeliver(id) ==
    /\ redelivered < MaxRedeliver
    /\ \E i \in DOMAIN dispatched : dispatched[i] = id
    /\ ~BagIn(id, queue)
    /\ queue' = queue (+) SetToBag({id})
    /\ redelivered' = redelivered + 1
    /\ response' = NoResponse
    /\ req' = Settled(req)
    /\ UNCHANGED <<batches, reports, dispatched, active>>
    /\ UNCHANGED aiVars

(***************************************************************************)
(* Provider resolution (ai_service.py lines 10-45, config.py lines 23-25). *)
(* An Optional[str] setting is None or <<s>> with s the string.            *)
(***************************************************************************)
anthropic == <<"a", "n", "t", "h", "r", "o", "p", "i", "c">>
openai == <<"o", "p", "e", "n", "a", "i">>
ollama == <<"o", "l", "l", "a", "m", "a">>

\* the values the model gives AI_PROVIDER and the two API keys
ProviderSettings ==
    { None, << <<>> >>, <<anthropic>>, <<openai>>, <<ollama>>,
      << <<"A", "n", "t", "h", "r", "o", "p", "i", "c">> >>,
      << <<"O", "P", "E", "N", "A", "I">> >>,
      << <<"o", "l", "l", "a", "m", "a", " ">> >>,
      << <<"g", "e", "m", "i", "n", "i">> >> }

KeySettings == { None, << <<>> >>, << <<"s", "k">> >> }

SettingsSpace ==
    [AI_PROVIDER : ProviderSettings, ANTHROPIC_API_KEY : KeySettings,
     OPENAI_API_KEY : KeySettings]

\* Python truth of an Optional[str]: None and "" are false
Truthy(opt) == opt # None /\ opt[1] # <<>>

Raised(type, msg) == [raised |-> TRUE, exc |-> [type |-> type, msg |-> msg], value |-> None]
Returned(value) == [raised |-> FALSE, exc |-> [type |-> "", msg |-> <<>>], value |-> value]

\* a resolution that compares AI_PROVIDER as written
DetermineProviderCaseSensitive(s) ==
    IF Truthy(s.AI_PROVIDER)
    THEN LET p == s.AI_PROVIDER[1]
         IN  IF p \notin {anthropic, openai, ollama}
             THEN Raised("ValueError", <<"Invalid AI_PROVIDER: ", p>>)
             ELSE Returned(p)
    ELSE IF Truthy(s.ANTHROPIC_API_KEY) THEN Returned(anthropic)
    ELSE IF Truthy(s.OPENAI_API_KEY) THEN Returned(openai)
    ELSE Returned(ollama)

\* AIService._determine_provider
DetermineProvider(s) ==
    IF Truthy(s.AI_PROVIDER)
    THEN LET p == Lower(s.AI_PROVIDER[1])
         IN  IF p \notin {anthropic, openai, ollama}
             THEN Raised("ValueError", <<"Invalid AI_PROVIDER: ", p>>)
             ELSE Returned(p)
    ELSE IF Truthy(s.ANTHROPIC_API_KEY) THEN Returned(anthropic)
    ELSE IF Truthy(s.OPENAI_API_KEY) THEN Returned(openai)
    ELSE Returned(ollama)

\* AIService.__init__: the provider and the client built for it (a client is
\* kept as the arguments it was built with)
AIServiceInit(s) ==
    LET d == DetermineProvider(s)
    IN  IF d.raised
        THEN [state |-> "raised", exc |-> d.exc, provider |-> <<>>,
              anthropic_client |-> None, openai_client |-> None]
        ELSE IF d.value = anthropic
        THEN [state |-> "ready", exc |-> d.exc, provider |-> d.value,
              anthropic_client |-> <<[api_key |-> s.ANTHROPIC_API_KEY, base_url |-> None]>>,
              openai_client |-> None]
        ELSE IF d.value = openai
        THEN [state |-> "ready", exc |-> d.exc, provider |-> d.value,
              anthropic_client |-> None,
              openai_client |-> <<[api_key |-> s.OPENAI_API_KEY, base_url |-> None]>>]
        ELSE IF d.value = ollama
        THEN [state |-> "ready", exc |-> d.exc, provider |-> d.value,
              anthropic_client |-> None,
              openai_client |-> <<[api_key |-> <<ollama>>,
                                   base_url |-> <<"OLLAMA_BASE_URL", "/v1">>]>>]
        ELSE [state |-> "raised",
              exc |-> [type |-> "ValueError", msg |-> <<"No AI provider configured">>],
              provider |-> d.value, anthropic_client |-> None, openai_client |-> None]

Unbuilt == [state |-> "unbuilt"]

\* ai_service = AIService(), line 223
Construct ==
    /\ service.state = "unbuilt"
    /\ service' = AIServiceInit(settings)
    /\ UNCHANGED <<settings, template_structure, loads, schemas, outcome>>
    /\ UNCHANGED lifecycleVars

(***************************************************************************)
(* Template structures and schema compilation (ai_service.py lines 47-90). *)
(* A JSON value is [kind, val]: a string, a number, a value json.dumps     *)
(* cannot serialize, or a dict, whose val maps its keys to values.         *)
(***************************************************************************)
Str(v) == [kind |-> "str", val |-> v]
Num == [kind |-> "int", val |-> "5"]
Lst == [kind |-> "list", val |-> "[]"]
Unserializable == [kind |-> "set", val |-> "set()"]
Dict(f) == [kind |-> "dict", val |-> f]
EmptyDict == Dict(<<>>)

IsDict(v) == v.kind = "dict"
\* key in d, for a dict d
HasKey(d, key) == key \in DOMAIN d.val

\* id(field_info): the address of a dict object.  Each loaded copy of a
\* structure lives on its own heap, so the address is the heap and the place of
\* the dict in the structure; two copies share addresses only when they are
\* the same object, or the second was allocated where the first had been freed.
Id(heap, path) == <<heap, path>>

OptionalStr(description) ==
    [type |-> "Optional[str]", default |-> None, description |-> description,
     model |-> <<>>]
OptionalModel(model) ==
    [type |-> "Optional[model]", default |-> None, description |-> None,
     model |-> <<model>>]

\* pydantic.create_model(name, **fields)
create_model(name, fields) == [name |-> name, fields |-> fields]

\* build_field_type (lines 56-82); path is where field_info sits in the structure
RECURSIVE build_field_type(_, _, _, _)
build_field_type(field_info, model_name, heap, path) ==
    IF IsDict(field_info)
    THEN IF HasKey(field_info, "type") /\ HasKey(field_info, "description")
         THEN OptionalStr(<<field_info.val["description"]>>)
         ELSE LET keys == {key \in DOMAIN field_info.val : IsDict(field_info.val[key])}
                  nested_fields ==
                      [key \in keys |->
                          build_field_type(field_info.val[key], model_name, heap,
                                           Append(path, key))]
              IN  IF keys # {}
                  THEN OptionalModel(create_model(<<model_name, Id(heap, path)>>,
                                                  nested_fields))
                  ELSE OptionalStr(None)
    ELSE OptionalStr(None)

RadiologyReport == "RadiologyReport"

\* _create_pydantic_model_from_template (lines 84-90); .items() of a value that
\* is no dict raises AttributeError
CreateModel(structure, model_name, heap) ==
    IF ~IsDict(structure)
    THEN Raised("AttributeError", <<"object has no attribute 'items'">>)
    ELSE Returned(create_model(<<model_name>>,
            [field_name \in DOMAIN structure.val |->
                build_field_type(structure.val[field_name], model_name, heap,
                                 <<field_name>>)]))

(***************************************************************************)
(* The template structures the model compiles.                             *)
(***************************************************************************)
Keys == {"type", "description", "findings"}

Leaves ==
    { Dict([key \in {"type", "description"} |->
              IF key = "type" THEN Str(t) ELSE Str("lung findings")]) :
        t \in {"string", "number"} }

\* values that are neither a leaf nor an object node
Malformed ==
    { Str("text"), Num, EmptyDict,
      Dict([key \in {"type"} |-> Str("string")]),
      Dict([key \in {"description"} |-> Str("lung findings")]),
      Dict([key \in {"findings"} |-> Str("text")]) }

Level1 == Leaves \cup Malformed

\* the dicts with one key, or two, over the given values
Dicts1(values) == { Dict([key \in {k} |-> v]) : k \in Keys, v \in values }
Dicts2(values1, values2) ==
    { Dict([key \in {k1, k2} |-> IF key = k1 THEN v1 ELSE v2]) :
        k1 \in Keys, k2 \in Keys, v1 \in values1, v2 \in values2 }

Level2 == Level1 \cup Dicts1(Level1) \cup Dicts2(Level1, Level1)
Level3 == Level2 \cup Dicts1(Dicts1(Leaves) \cup Dicts2(Leaves, Leaves))

Templates == Dicts1(Level3) \cup Dicts2(Level2, Leaves \cup {Str("text")})

(***************************************************************************)
(* Loading a stored structure and compiling it.                            *)
(***************************************************************************)
\* the most copies of the structure the model loads and compiles
MaxLoads == 2
Heaps == 1..2

\* a copy of the structure is loaded on a heap and compiled
Compile(heap) ==
    /\ Len(loads) < MaxLoads
    /\ loads' = Append(loads, heap)
    /\ schemas' = Append(schemas, CreateModel(template_structure, RadiologyReport, heap))
    /\ UNCHANGED <<settings, service, template_structure, outcome>>
    /\ UNCHANGED lifecycleVars

(***************************************************************************)
(* structure_report and the provider adapters (ai_service.py lines 92-198).*)
(***************************************************************************)
\* json.dumps raises TypeError on a value it cannot serialize
RECURSIVE Serializable(_)
Serializable(v) ==
    IF IsDict(v) THEN \A key \in DOMAIN v.val : Serializable(v.val[key])
    ELSE v.kind # "set"

\* _build_prompt (lines 119-142)
BuildPrompt(report_text, structure) ==
    IF ~Serializable(structure)
    THEN Raised("TypeError", <<"Object is not JSON serializable">>)
    ELSE Returned(<<"RADIOLOGY REPORT:", report_text, "TEMPLATE STRUCTURE:", structure>>)

ExtractionResult(structured_data) ==
    [structured_data |-> structured_data, confidence_score |-> CONFIDENCE]

\* the first block of message.content whose type is tool_use, or 0
FirstToolUse(content) ==
    LET hits == {i \in DOMAIN content : content[i].type = "tool_use"}
    IN  IF hits = {} THEN 0 ELSE CHOOSE i \in hits : \A j \in hits : i <= j

\* _call_anthropic (lines 144-172); api is what messages.create does
CallAnthropic(prompt, response_model, api) ==
    IF api.error THEN Raised("APIError", <<"anthropic request failed">>)
    ELSE LET i == FirstToolUse(api.content)
         IN  IF i # 0 THEN Returned(ExtractionResult(api.content[i].input))
             ELSE Raised("Exception", <<"No structured data returned from Anthropic">>)

\* _call_openai (lines 174-198); api is what completions.parse does
CallOpenai(prompt, response_model, api, provider) ==
    IF api.error THEN Raised("APIError", <<"openai request failed">>)
    ELSE IF api.parsed # None THEN Returned(ExtractionResult(api.parsed[1]))
    ELSE Raised("Exception", <<"No structured data returned from ", provider>>)

\* raise Exception(f"AI processing failed: {str(e)}"), line 117
Wrapped(e) == Raised("Exception", <<"AI processing failed: ", e.msg>>)

\* the try block of structure_report (lines 108-117)
CallProvider(provider, prompt, response_model, api) ==
    LET r == IF provider = anthropic
             THEN CallAnthropic(prompt, response_model, api.anthropic)
             ELSE IF provider \in {openai, ollama}
             THEN CallOpenai(prompt, response_model, api.openai, provider)
             ELSE Raised("ValueError", <<"Unsupported AI provider: ", provider>>)
    IN  IF r.raised THEN Wrapped(r.exc) ELSE r

\* structure_report (lines 92-117)
structure_report(provider, report_text, structure, heap, api) ==
    LET response_model == CreateModel(structure, RadiologyReport, heap)
    IN  IF response_model.raised THEN response_model
        ELSE LET prompt == BuildPrompt(report_text, structure)
             IN  IF prompt.raised THEN prompt
                 ELSE CallProvider(provider, prompt.value, response_model.value, api)

\* what the provider's API answers
Payloads == { [findings |-> None], [findings |-> <<"clear">>] }
TextBlock == [type |-> "text", input |-> [findings |-> None]]
ToolUse(payload) == [type |-> "tool_use", input |-> payload]
AnthropicAnswers ==
    { [error |-> TRUE, content |-> <<>>], [error |-> FALSE, content |-> <<>>],
      [error |-> FALSE, content |-> <<TextBlock>>] }
    \cup { [error |-> FALSE, content |-> <<ToolUse(p)>>] : p \in Payloads }
    \cup { [error |-> FALSE, content |-> <<TextBlock, ToolUse(p)>>] : p \in Payloads }
    \cup { [error |-> FALSE, content |-> <<ToolUse(p), ToolUse(q)>>] :
                p \in Payloads, q \in Payloads }
OpenaiAnswers ==
    { [error |-> TRUE, parsed |-> None], [error |-> FALSE, parsed |-> None] }
    \cup { [error |-> FALSE, parsed |-> <<p>>] : p \in Payloads }
Answers == [anthropic : AnthropicAnswers, openai : OpenaiAnswers]

\* the structures structure_report is called with
StructureInputs ==
    { Lst, Str("text"),
      Dict([key \in {"findings"} |-> Unserializable]),
      Dict([key \in {"findings"} |-> Dict([k \in {"findings"} |-> Unserializable])]) }
    \cup Dicts1(Leaves)
    \cup Dicts1(Dicts1(Leaves))

ReportText == <<"N", "o", " ", "a", "c", "u", "t", "e", " ", "f", "i", "n", "d", "i", "n", "g", "s", ".">>

\* one call of ai_service.structure_report
StructureReport(heap, api) ==
    /\ service.state = "ready"
    /\ outcome.kind = "none"
    /\ outcome' = [kind |-> "called", api |-> api, heap |-> heap,
                   result |-> structure_report(service.provider, ReportText,
                                               template_structure, heap, api)]
    /\ UNCHANGED <<settings, service, template_structure, loads, schemas>>
    /\ UNCHANGED lifecycleVars

(***************************************************************************)
(* The lifecycle specification: uploads, reads and units of work.          *)
(***************************************************************************)
AiIdle ==
    /\ settings = [AI_PROVIDER |-> None, ANTHROPIC_API_KEY |-> None,
                   OPENAI_API_KEY |-> None]
    /\ service = Unbuilt
    /\ template_structure = [kind |-> "none"]
    /\ loads = <<>>
    /\ schemas = <<>>
    /\ outcome = [kind |-> "none"]

LifecycleIdle ==
    /\ batches = <<>>
    /\ reports = <<>>
    /\ dispatched = <<>>
    /\ queue = EmptyBag
    /\ active = {}
    /\ redelivered = 0
    /\ req = Idle
    /\ response = NoResponse

Init == LifecycleIdle /\ AiIdle

Next ==
    \/ \E call \in CreateBatchCalls : CreateBatchReject(call)
    \/ \E call \in CreateBatchCalls : CreateBatchBegin(call)
    \/ CreateBatchAddReport
    \/ CreateBatchDispatch
    \/ CreateBatchReturn
    \/ \E skip \in {DefaultSkip, 1} : GetBatches(skip, DefaultLimit)
    \/ \E batch_id \in 1..(Len(batches) + 1) : GetBatch(batch_id)
    \/ \E id \in DOMAIN reports : ProcessReportClaim(id)
    \/ \E id \in DOMAIN reports : ProcessReportComplete(id)
    \/ \E id \in DOMAIN reports : ProcessReportFail(id)
    \/ \E id \in DOMAIN reports : Redeliver(id)

Spec == Init /\ [][Next]_vars

(***************************************************************************)
(* The provider specification: the service is built once from settings.    *)
(***************************************************************************)
InitProvider ==
    /\ LifecycleIdle
    /\ settings \in SettingsSpace
    /\ service = Unbuilt
    /\ template_structure = [kind |-> "none"]
    /\ loads = <<>>
    /\ schemas = <<>>
    /\ outcome = [kind |-> "none"]

NextProvider == Construct

SpecProvider == InitProvider /\ [][NextProvider]_vars

(***************************************************************************)
(* The compilation specification: a template structure is loaded and       *)
(* compiled, and later loaded and compiled again.                          *)
(***************************************************************************)
InitCompile ==
    /\ LifecycleIdle
    /\ settings = [AI_PROVIDER |-> None, ANTHROPIC_API_KEY |-> None,
                   OPENAI_API_KEY |-> None]
    /\ service = Unbuilt
    /\ template_structure \in Templates
    /\ loads = <<>>
    /\ schemas = <<>>
    /\ outcome = [kind |-> "none"]

NextCompile == \E heap \in Heaps : Compile(heap)

SpecCompile == InitCompile /\ [][NextCompile]_vars

(***************************************************************************)
(* The extraction specification: the service is built, then called.        *)
(***************************************************************************)
InitStructure ==
    /\ LifecycleIdle
    /\ settings \in { s \in SettingsSpace :
                        s.ANTHROPIC_API_KEY # << <<>> >> /\ s.OPENAI_API_KEY # << <<>> >> }
    /\ service = Unbuilt
    /\ template_structure \in StructureInputs
    /\ loads = <<>>
    /\ schemas = <<>>
    /\ outcome = [kind |-> "none"]

NextStructure ==
    \/ Construct
    \/ \E heap \in Heaps, api \in Answers : StructureReport(heap, api)

SpecStructure == InitStructure /\ [][NextStructure]_vars

(***************************************************************************)
(* Properties of create_batch and of the batch lifecycle.                  *)
(***************************************************************************)
Range(f) == {f[i] : i \in DOMAIN f}
ReportsOf(b) == {id \in DOMAIN reports : reports[id].batch_id = b}
CountIn(b, statuses) == Cardinality({id \in ReportsOf(b) : reports[id].status \in statuses})
Terminal == {"completed", "failed"}

\* the rows and calls the answered create_batch call has added
NewBatches == (req.before.batches + 1)..Len(batches)
NewReports == (req.before.reports + 1)..Len(reports)
NewDispatches == SubSeq(dispatched, req.before.dispatched + 1, Len(dispatched))

\* what C1 says of the batch, of the texts and of the dispatch calls
C1_Writes ==
    /\ NewBatches = {req.batch_id}
    /\ batches[req.batch_id].total_reports = Len(req.call.texts)
    /\ batches[req.batch_id].status = "pending"
    /\ Cardinality(NewReports) = Len(req.call.texts)
    /\ \A i \in 1..Len(req.call.texts) :
            LET r == reports[req.before.reports + i]
            IN  /\ r.batch_id = req.batch_id
                /\ r.template_id = batches[req.batch_id].template_id
                /\ r.original_text = req.call.texts[i]
    /\ Len(NewDispatches) = Len(req.call.texts)
    /\ Range(NewDispatches) = NewReports

\* C1 as claimed: when create_batch returns, having accepted an upload of N
\* texts, there is one new batch (total_reports = N, pending), N new reports of
\* it, each in status pending with the batch's template id and its input text,
\* and N dispatch calls, one per new report id and none for another id.
C1_AsClaimed ==
    response.kind = "created" =>
        /\ C1_Writes
        /\ \A id \in NewReports : reports[id].status = "pending"

\* C1 amended: as claimed, but each new report is created in status pending and
\* is pending until its dispatch call is issued; by the time create_batch
\* returns its unit of work may have moved it on.
C1_CreatedPending ==
    /\ \A id \in DOMAIN reports : id \notin Range(dispatched) => reports[id].status = "pending"
    /\ response.kind = "created" => C1_Writes

\* an upload of two texts, one of them with trailing whitespace, was answered
C1_Witness ==
    /\ response.kind = "created"
    /\ Len(req.call.texts) = 2
    /\ \E i \in 1..2 : Strip(req.call.texts[i]) # req.call.texts[i]

\* C2, in every state: the completed and the failed reports of a batch are at
\* most total_reports, and once the batch's reports are all created and all
\* terminal they are exactly total_reports, the number of its dispatch calls.
C2_Counts ==
    \A b \in DOMAIN batches :
        /\ CountIn(b, {"completed"}) + CountIn(b, {"failed"}) <= batches[b].total_reports
        /\ (/\ ~(req.pc \in {"loop", "queue"} /\ req.batch_id = b)
            /\ \A id \in ReportsOf(b) : reports[id].status \in Terminal)
           => /\ CountIn(b, {"completed"}) + CountIn(b, {"failed"}) = batches[b].total_reports
              /\ Cardinality({i \in DOMAIN dispatched : dispatched[i] \in ReportsOf(b)})
                    = batches[b].total_reports

\* C2, in every step: total_reports of a stored batch does not change
C2_TotalFixed ==
    \A b \in DOMAIN batches :
        b \in DOMAIN batches' /\ batches'[b].total_reports = batches[b].total_reports

\* C2: for every batch, completed + failed <= total_reports in every reachable
\* state, with re-delivery and any order of the units of work; once all its units
\* of work are terminal, completed + failed = N = total_reports; total_reports
\* never changes after creation.
C2_Accounting == [](C2_Counts) /\ [][C2_TotalFixed]_vars

\* a batch of two, one completed and one failed, after a duplicate delivery
C2_Witness ==
    \E b \in DOMAIN batches :
        /\ batches[b].total_reports = 2
        /\ CountIn(b, {"completed"}) = 1
        /\ CountIn(b, {"failed"}) = 1
        /\ redelivered > 0

\* the fold of a batch's report states against total_reports; a report that is
\* not created yet has not left pending
Fold(b) ==
    LET total == batches[b].total_reports
    IN  IF CountIn(b, {"processing", "completed", "failed"}) = 0 THEN "pending"
        ELSE IF CountIn(b, Terminal) < total THEN "processing"
        ELSE IF CountIn(b, {"completed"}) = total THEN "completed"
        ELSE IF CountIn(b, {"completed"}) > 0 THEN "partially_failed"
        ELSE "failed"

\* C3: the status get_batch and get_batches report for a batch is the fold of its
\* reports' current states, never a stale stored value.
C3_ReadIsFold ==
    /\ response.kind = "batch" => response.status = Fold(response.id)
    /\ response.kind = "batches" =>
            \A i \in DOMAIN response.items : response.items[i].status = Fold(response.items[i].id)

\* C9: every dispatched id is the id of a stored report of a stored batch, the
\* report about to be dispatched is stored and pending, and a batch never has
\* more stored reports than total_reports, whatever the units of work already
\* dispatched do while the loop goes on.
C9_DispatchAfterCommit ==
    /\ \A i \in DOMAIN dispatched :
            /\ dispatched[i] \in DOMAIN reports
            /\ reports[dispatched[i]].batch_id \in DOMAIN batches
    /\ req.pc = "queue" =>
            /\ req.report_id \in DOMAIN reports
            /\ reports[req.report_id].status = "pending"
            /\ reports[req.report_id].batch_id = req.batch_id
            /\ req.batch_id \in DOMAIN batches
    /\ \A b \in DOMAIN batches : Cardinality(ReportsOf(b)) <= batches[b].total_reports

\* the first report of a batch of two is completed before the second is created
C9_Witness ==
    /\ req.pc = "loop"
    /\ req.idx = 1
    /\ Len(req.all_reports) = 2
    /\ reports[dispatched[Len(dispatched)]].status = "completed"
    /\ Cardinality(ReportsOf(req.batch_id)) = 1

\* C10: a bad upload (missing template, a file with a disallowed extension, no
\* valid JSON, no array, a non-string or blank element, or no report at all) is
\* rejected and writes nothing: no batch, no report, no dispatch, also when
\* another file of the upload is good.
C10_RejectedWritesNothing ==
    /\ req.call.bad => req.pc = "rejected"
    /\ req.pc = "rejected" =>
            /\ response.kind = "error"
            /\ Len(batches) = req.before.batches
            /\ Len(reports) = req.before.reports
            /\ Len(dispatched) = req.before.dispatched

\* a bad upload with a good file is rejected when a batch is already stored
C10_Witness ==
    /\ req.pc = "rejected"
    /\ req.call.mixed
    /\ req.call.template_id \in StoredTemplates
    /\ Len(batches) > 0

(***************************************************************************)
(* Properties of the AI service.                                           *)
(***************************************************************************)
Providers == {anthropic, openai, ollama}

\* the provider found by the credentials alone
ByCredential(s) ==
    IF Truthy(s.ANTHROPIC_API_KEY) THEN anthropic
    ELSE IF Truthy(s.OPENAI_API_KEY) THEN openai
    ELSE ollama

\* C5 as claimed: AI_PROVIDER naming a provider in any letter case chooses it;
\* otherwise the credentials choose, and construction does not fail.
C5_AsClaimed ==
    service.state # "unbuilt" =>
        /\ service.state = "ready"
        /\ service.provider =
                IF settings.AI_PROVIDER # None /\ Lower(settings.AI_PROVIDER[1]) \in Providers
                THEN Lower(settings.AI_PROVIDER[1])
                ELSE ByCredential(settings)

\* C5 amended: AI_PROVIDER naming a provider in any letter case chooses it; any
\* other non-empty AI_PROVIDER makes construction fail with ValueError; with
\* AI_PROVIDER unset or empty the credentials choose (a key counts when it is
\* non-empty), and with none of them the result is ollama.
C5_Precedence ==
    service.state # "unbuilt" =>
        IF Truthy(settings.AI_PROVIDER)
        THEN IF Lower(settings.AI_PROVIDER[1]) \in Providers
             THEN service.state = "ready" /\ service.provider = Lower(settings.AI_PROVIDER[1])
             ELSE service.state = "raised" /\ service.exc.type = "ValueError"
        ELSE service.state = "ready" /\ service.provider = ByCredential(settings)

\* AI_PROVIDER=OPENAI wins over an Anthropic key
C5_Witness ==
    /\ service.state = "ready"
    /\ settings.AI_PROVIDER = << <<"O", "P", "E", "N", "A", "I">> >>
    /\ Truthy(settings.ANTHROPIC_API_KEY)
    /\ service.provider = openai

\* what the adapter of the service's provider returns or raises
AdapterResult ==
    IF service.provider = anthropic
    THEN CallAnthropic(<<>>, <<>>, outcome.api.anthropic)
    ELSE CallOpenai(<<>>, <<>>, outcome.api.openai, service.provider)

\* C4: whatever raises in structure_report (compilation, prompt building, the
\* adapter), the caller sees the one wrapped error "AI processing failed: ...";
\* when nothing raises it gets the adapter's result unchanged.
C4_SingleBoundary ==
    outcome.kind = "called" =>
        IF outcome.result.raised
        THEN /\ outcome.result.exc.type = "Exception"
             /\ outcome.result.exc.msg[1] = "AI processing failed: "
        ELSE outcome.result = AdapterResult

(***************************************************************************)
(* Properties of schema compilation.                                       *)
(***************************************************************************)
\* a leaf: a mapping of exactly type and description, both strings
IsLeafNode(v) ==
    /\ IsDict(v)
    /\ DOMAIN v.val = {"type", "description"}
    /\ v.val["type"].kind = "str"
    /\ v.val["description"].kind = "str"

\* a template part made only of leaves and object nodes
RECURSIVE WellFormed(_)
WellFormed(v) ==
    \/ IsLeafNode(v)
    \/ /\ IsDict(v)
       /\ DOMAIN v.val # {}
       /\ \A key \in DOMAIN v.val : WellFormed(v.val[key])

\* the compiled field mirrors the template value
RECURSIVE Mirrors(_, _)
Mirrors(v, field) ==
    IF IsLeafNode(v)
    THEN field = OptionalStr(<<v.val["description"]>>)
    ELSE /\ field.type = "Optional[model]"
         /\ field.default = None
         /\ DOMAIN field.model[1].fields = DOMAIN v.val
         /\ \A key \in DOMAIN v.val : Mirrors(v.val[key], field.model[1].fields[key])

\* C7: the schema compiled from a template made only of leaves and object nodes
\* has, at every level, exactly the template's keys; a leaf is an optional
\* string defaulting to absent that carries its description; an object node is
\* an optional nested schema of its children.
C7_Mirror ==
    \A i \in DOMAIN schemas :
        (\A key \in DOMAIN template_structure.val : WellFormed(template_structure.val[key]))
        => /\ ~schemas[i].raised
           /\ DOMAIN schemas[i].value.fields = DOMAIN template_structure.val
           /\ \A key \in DOMAIN template_structure.val :
                Mirrors(template_structure.val[key], schemas[i].value.fields[key])

\* an object node: a mapping with a child that is a mapping.  A mapping with
\* both keys type and description is read here as a leaf, well formed or not,
\* so that no node the compiler takes for a leaf counts as an object node.
IsObjectNode(v) ==
    /\ IsDict(v)
    /\ ~(HasKey(v, "type") /\ HasKey(v, "description"))
    /\ \E key \in DOMAIN v.val : IsDict(v.val[key])

IsMalformed(v) == ~IsLeafNode(v) /\ ~IsObjectNode(v)

\* a type or description entry that is no mapping: a marker of a leaf, which is
\* not read here as a field of its own
IsMarker(key, v) == key \in {"type", "description"} /\ ~IsDict(v)

RECURSIVE HoldsMalformed(_)
HoldsMalformed(v) ==
    IsDict(v) /\ \E key \in DOMAIN v.val :
        \/ IsMalformed(v.val[key]) /\ ~IsMarker(key, v.val[key])
        \/ IsObjectNode(v.val[key]) /\ HoldsMalformed(v.val[key])

\* every malformed value of the mapping d, and of the object nodes in it, has
\* its optional string field among fields
RECURSIVE Degrades(_, _)
Degrades(d, fields) ==
    \A key \in DOMAIN d.val :
        LET v == d.val[key]
        IN  IF IsMarker(key, v) THEN TRUE
            ELSE IF IsMalformed(v)
            THEN /\ key \in DOMAIN fields
                 /\ fields[key].type = "Optional[str]"
                 /\ fields[key].default = None
            ELSE IF IsObjectNode(v) /\ HoldsMalformed(v)
            THEN /\ key \in DOMAIN fields
                 /\ fields[key].type = "Optional[model]"
                 /\ Degrades(v, fields[key].model[1].fields)
            ELSE TRUE

\* C6: compilation does not raise, and every key whose value is neither a leaf
\* nor an object node, at the top level or inside an object node at any depth,
\* has at that place an optional string field defaulting to absent.  (Where the
\* claim can be read two ways it is read in the compiler's favour: see
\* IsObjectNode and IsMarker.)
C6_Degrades ==
    \A i \in DOMAIN schemas :
        /\ ~schemas[i].raised
        /\ Degrades(template_structure, schemas[i].value.fields)

\* C8: two compilations of the same structure content give identical schemas,
\* the names of the nested schemas included.
C8_Deterministic ==
    \A i \in DOMAIN schemas, j \in DOMAIN schemas : schemas[i] = schemas[j]

====
